---- MODULE Spec2Model ----
(***************************************************************************)
(* pay2me: the payment panel (CryptoPayment.tsx), its wallet modal         *)
(* (WalletModal.tsx) and the animated amount display (AnimatedNumber.tsx). *)
(*                                                                         *)
(* Money is counted in thousandths of a dollar ("milli"), one digit finer  *)
(* than the two decimals the panel keeps, so that rounding to two decimals *)
(* is an operation that does something. Token amounts on the contract side *)
(* are in millionths (USDC has 6 decimals).                                *)
(***************************************************************************)
EXTENDS Integers, Sequences, FiniteSets, TLC

\* ------------------------------------------------------------------ bounds
MaxSelects == 2      \* wallet choices + handleWalletSelect calls alive at once
MaxPays == 2         \* handlePayment calls alive at once
MaxEdits == 1        \* amount edits per behaviour of the whole-panel Spec
MaxChains == 3       \* animate() callbacks queued at once
Res == 64            \* display quanta per milli (resolution of displayValue)

\* --------------------------------------------------------- program constants
MinAmount == 250
MaxAmount == 1000000
AmountStep == 250
DefaultAmount == 5000
duration == 300

Presets == {250, 1000, 2500, 5000, 10000, 25000, 50000, 100000}
walletOptions == {"metamask", "rbwallet", "coinbase", "walletconnect"}
BASE_SEPOLIA_CHAIN_ID == "0x14a34"

\* null (walletInfo) is the empty sequence, a wallet record w is <<w>>; null
\* (isConnecting) is the string NoWallet.
Null == <<>>
NoWallet == "null"
UnableToFetch == -1

\* ------------------------------------------------------------ input domains
\* What the user can type in the custom-amount box, after parseFloat: not a
\* number, or a number in milli.
TextNumbers == {-5000, 0, 4, 5, 249, 254, 255, 12344, 12345, 999995, 1000004, 5000000}
TextInputs ==
    {[numeric |-> FALSE, milli |-> 0]} \cup {[numeric |-> TRUE, milli |-> n] : n \in TextNumbers}
\* Accounts the provider may return, chain ids it may report, token balances
\* (in millionths) the contract may report.
Addresses == {"0xAAAA", "0xBBBB"}
\* The lists eth_requestAccounts may resolve with: none, one or two accounts.
AccountLists ==
    {<<>>} \cup {<<a>> : a \in Addresses}
           \cup {<<a, b>> : a \in Addresses, b \in Addresses}
ChainIds == {BASE_SEPOLIA_CHAIN_ID, "0x1"}
Balances == {0, 4999999, 5000000}
\* Failure objects a provider call may reject with: a code and a message, the
\* message given by the phrases it contains, or absent.
ErrorCodes == {"ACTION_REJECTED", "4902", "OTHER"}
Phrases == {"insufficient funds", "user rejected"}
Errors ==
    {e \in [code : ErrorCodes, hasMessage : BOOLEAN, phrases : SUBSET Phrases] :
        ~e.hasMessage => e.phrases = {}}
ReceiptStatuses == {0, 1}
TxHashes == {"0xT1", "0xT2"}
Receipts == [status : ReceiptStatuses, hash : TxHashes]
\* Amounts (milli) the parent may pass to AnimatedNumber, and the milliseconds
\* that may pass between two events of the animation.
AnimTargets == {1000, 1500, 5000}
TickSteps == {75, 150}

VARIABLES
    \* CryptoPayment state
    isWalletModalOpen, isConnected, walletInfo, isProcessing, paymentAmount,
    wrongNetwork,
    \* WalletModal state and its pending handleWalletClick timers
    isConnecting, clicks,
    \* the last invocation of the onWalletSelect callback: its argument, and a
    \* bit that flips at every invocation
    selected,
    \* the environment: window.ethereum present or not
    ethereum,
    \* async invocations suspended at an await
    selects, pays,
    \* the last invocation of handleWalletSelect / handlePayment that ended
    done,
    \* amount edits made so far (bounded in Spec)
    edits,
    \* AnimatedNumber: the value prop, its state, the requestAnimationFrame
    \* queue, and the observation variables of the animation
    value, displayValue, isAnimating, rafQueue, sinceTarget, animFrom, writer, framed

panelVars ==
    <<isWalletModalOpen, isConnected, walletInfo, isProcessing, paymentAmount,
      wrongNetwork, isConnecting, clicks, ethereum, selected, selects, pays, done, edits>>
animVars ==
    <<value, displayValue, isAnimating, rafQueue, sinceTarget, animFrom, writer, framed>>
vars == <<panelVars, animVars>>

\* ------------------------------------------------------------------ helpers
Min(a, b) == IF a < b THEN a ELSE b
Max(a, b) == IF a > b THEN a ELSE b

RECURSIVE Gcd(_, _)
Gcd(a, b) == IF b = 0 THEN a ELSE Gcd(b, a % b)

RemoveAt(s, i) == [j \in 1..(Len(s) - 1) |-> IF j < i THEN s[j] ELSE s[j + 1]]

\* Number.prototype.toFixed followed by Number(): the multiples of `unit`
\* nearest to x. Exactly halfway, the digit printed depends on the binary
\* double nearest to the decimal typed (12.345 prints "12.35", 1.005 prints
\* "1.00"), so both neighbours are possible.
ToFixed(x, unit) ==
    LET lo == x - (x % unit)
        r == x % unit
    IN  IF r = 0 THEN {x}
        ELSE IF 2 * r < unit THEN {lo}
        ELSE IF 2 * r > unit THEN {lo + unit}
        ELSE {lo, lo + unit}

CentUnit == 10

\* -------------------------------------------------------- amount operations
\* Math.min(Number((prev + 0.25).toFixed(2)), 1000)
increaseAmountWithoutMin(prev) == ToFixed(prev + AmountStep, CentUnit)
increaseAmountResult(prev) ==
    {Min(r, MaxAmount) : r \in ToFixed(prev + AmountStep, CentUnit)}

\* Math.max(Number((prev - 0.25).toFixed(2)), 0.25)
decreaseAmountWithoutMax(prev) == ToFixed(prev - AmountStep, CentUnit)
decreaseAmountResult(prev) ==
    {Max(r, MinAmount) : r \in ToFixed(prev - AmountStep, CentUnit)}

\* parseFloat(e.target.value) || 0.25, then
\* Math.min(Math.max(Number(value.toFixed(2)), 0.25), 1000)
parseFloatOrMin(text) ==
    IF ~text.numeric \/ text.milli = 0 THEN MinAmount ELSE text.milli
handleAmountChangeWithoutMax(text) ==
    {Min(r, MaxAmount) : r \in ToFixed(parseFloatOrMin(text), CentUnit)}
handleAmountChangeResult(text) ==
    {Min(Max(r, MinAmount), MaxAmount) : r \in ToFixed(parseFloatOrMin(text), CentUnit)}

\* The four amount controls, as changes of paymentAmount alone. The minus and
\* plus buttons are disabled at the bounds.
increaseAmount ==
    /\ paymentAmount < MaxAmount
    /\ paymentAmount' \in increaseAmountResult(paymentAmount)
decreaseAmount ==
    /\ paymentAmount > MinAmount
    /\ paymentAmount' \in decreaseAmountResult(paymentAmount)
selectPreset ==
    \E amount \in Presets : paymentAmount' = amount
handleAmountChange ==
    \E text \in TextInputs : paymentAmount' \in handleAmountChangeResult(text)

\* ------------------------------------------------------------ notifications
\* toast({title, description, variant}); the description is kept as the
\* message that was chosen and the amount it mentions (0 when it mentions none).
Toast(title, variant, message, amount) ==
    [title |-> title, variant |-> variant, message |-> message, amount |-> amount]
Destructive(toasts) == {k \in 1..Len(toasts) : toasts[k].variant = "destructive"}

\* The record left in `done` when an invocation ends. failed: one of the calls
\* it awaited rejected; threw: it ended by throwing out of the handler.
Ended(kind, outcome, toasts, failed, threw, calls, amount) ==
    [kind |-> kind, outcome |-> outcome, toasts |-> toasts, failed |-> failed,
     threw |-> threw, calls |-> calls, amount |-> amount]
NothingEnded == Ended("none", "none", <<>>, FALSE, FALSE, {}, 0)

\* ----------------------------------------------------------- WalletModal.tsx
\* "Connect wallet" (rendered while !isConnected): setIsWalletModalOpen(true)
OpenWalletModal ==
    /\ ~isConnected
    /\ ~isWalletModalOpen
    /\ isWalletModalOpen' = TRUE
    /\ UNCHANGED <<isConnected, walletInfo, isProcessing, paymentAmount, wrongNetwork,
                   isConnecting, clicks, ethereum, selected, selects, pays, done, edits, animVars>>

\* Dialog onOpenChange={onClose}: the user dismisses the modal. WalletModal
\* stays mounted, so isConnecting and a running delay survive.
CloseWalletModal ==
    /\ isWalletModalOpen
    /\ isWalletModalOpen' = FALSE
    /\ UNCHANGED <<isConnected, walletInfo, isProcessing, paymentAmount, wrongNetwork,
                   isConnecting, clicks, ethereum, selected, selects, pays, done, edits, animVars>>

\* The wallet buttons are disabled while isConnecting !== null.
WalletButtonAlwaysEnabled == isWalletModalOpen
WalletButtonEnabled == isWalletModalOpen /\ isConnecting = NoWallet

\* handleWalletClick up to its await: setIsConnecting(wallet.connector) and
\* the 500 ms timer is started.
handleWalletClick(wallet) ==
    /\ WalletButtonEnabled
    /\ Len(clicks) + Len(selects) < MaxSelects
    /\ isConnecting' = wallet
    /\ clicks' = Append(clicks, wallet)
    /\ UNCHANGED <<isWalletModalOpen, isConnected, walletInfo, isProcessing, paymentAmount,
                   wrongNetwork, ethereum, selected, selects, pays, done, edits, animVars>>

\* A handleWalletSelect invocation suspended at an await, with the provider
\* requests it has made. Its walletType argument is never read by the function
\* and is not kept.
SelectCall(pc, account, failed, calls) ==
    [pc |-> pc, account |-> account, failed |-> failed, calls |-> calls]

\* handleWalletSelect(walletType) up to its first await: without an injected
\* provider the "Wallet not found" toast and return; with one,
\* eth_requestAccounts is awaited.
handleWalletSelect(walletType) ==
    IF ~ethereum
    THEN /\ done' = Ended("select", "no_provider",
                          <<Toast("Wallet not found", "destructive", "install", 0)>>,
                          FALSE, FALSE, {}, 0)
         /\ UNCHANGED selects
    ELSE /\ selects' = Append(selects, SelectCall("eth_requestAccounts", "", FALSE,
                                                     {"eth_requestAccounts"}))
         /\ UNCHANGED done

\* onWalletSelect(walletType) as the modal sees it: the argument passed.
SelectedFirstOption(walletType, turn) == [walletType |-> "metamask", turn |-> turn]
Selected(walletType, turn) == [walletType |-> walletType, turn |-> turn]

\* handleWalletClick after the delay: onWalletSelect(wallet.connector), which
\* is not awaited, then setIsConnecting(null) and onClose().
WalletDelayElapsed ==
    /\ clicks # <<>>
    /\ handleWalletSelect(Head(clicks))
    /\ clicks' = Tail(clicks)
    /\ selected' = Selected(Head(clicks), 1 - selected.turn)
    /\ isConnecting' = NoWallet
    /\ isWalletModalOpen' = FALSE
    /\ UNCHANGED <<isConnected, walletInfo, isProcessing, paymentAmount, wrongNetwork,
                   ethereum, pays, edits, animVars>>

\* ---------------------------------------- CryptoPayment.tsx: handleWalletSelect
NetworkSwitchFailed ==
    Toast("Network Switch Failed", "destructive", "switch manually", 0)
ConnectionFailed ==
    Toast("Connection failed", "destructive", "try again", 0)
WalletConnected ==
    Toast("Wallet Connected", "default", "proceed", 0)

\* The invocation selects[i] returns: it leaves the queue and is recorded.
SelectReturns(i, outcome, toasts, failed) ==
    /\ selects' = RemoveAt(selects, i)
    /\ done' = Ended("select", outcome, toasts, failed, FALSE, selects[i].calls, 0)

\* The invocation selects[i] goes on to its next await.
SelectAwaits(i, pc, account, failed) ==
    /\ selects' = [selects EXCEPT ![i] = SelectCall(pc, account, failed,
                                                    selects[i].calls \cup {pc})]
    /\ UNCHANGED done

\* `$${parseFloat(balanceFormatted).toFixed(2)} USDC`: the balance (in
\* millionths) rounded to cents.
FormatBalance(balance) == ToFixed(balance, CentUnit * 1000)

\* eth_requestAccounts resolves with the list `accounts`: with an account,
\* checkAndSwitchNetwork starts and awaits eth_chainId; with none, nothing is
\* done at all.
AccountsResolveKeepingLast(i, accounts) ==
    /\ selects[i].pc = "eth_requestAccounts"
    /\ IF Len(accounts) > 0
       THEN IF ~ethereum
            THEN SelectReturns(i, "network_not_ok", <<>>, FALSE)
            ELSE SelectAwaits(i, "eth_chainId", accounts[Len(accounts)], FALSE)
       ELSE SelectReturns(i, "no_accounts", <<>>, FALSE)
    /\ UNCHANGED <<isWalletModalOpen, isConnected, walletInfo, isProcessing, paymentAmount,
                   wrongNetwork, isConnecting, clicks, ethereum, selected, pays, edits, animVars>>
AccountsResolve(i, accounts) ==
    /\ selects[i].pc = "eth_requestAccounts"
    /\ IF Len(accounts) > 0
       THEN IF ~ethereum
            THEN SelectReturns(i, "network_not_ok", <<>>, FALSE)
            ELSE SelectAwaits(i, "eth_chainId", accounts[1], FALSE)
       ELSE SelectReturns(i, "no_accounts", <<>>, FALSE)
    /\ UNCHANGED <<isWalletModalOpen, isConnected, walletInfo, isProcessing, paymentAmount,
                   wrongNetwork, isConnecting, clicks, ethereum, selected, pays, edits, animVars>>

\* eth_requestAccounts rejects: the catch of handleWalletSelect.
AccountsRejectSwallowed(i, error) ==
    /\ selects[i].pc = "eth_requestAccounts"
    /\ SelectReturns(i, "accounts_rejected", <<>>, TRUE)
    /\ UNCHANGED <<isWalletModalOpen, isConnected, walletInfo, isProcessing, paymentAmount,
                   wrongNetwork, isConnecting, clicks, ethereum, selected, pays, edits, animVars>>
AccountsReject(i, error) ==
    /\ selects[i].pc = "eth_requestAccounts"
    /\ SelectReturns(i, "accounts_rejected", <<ConnectionFailed>>, TRUE)
    /\ UNCHANGED <<isWalletModalOpen, isConnected, walletInfo, isProcessing, paymentAmount,
                   wrongNetwork, isConnecting, clicks, ethereum, selected, pays, edits, animVars>>

\* eth_chainId resolves: on another chain setWrongNetwork(true) and the switch
\* is requested; on Base Sepolia checkAndSwitchNetwork returns true and the
\* balance is queried.
ChainIdResolve(i, chainId) ==
    /\ selects[i].pc = "eth_chainId"
    /\ IF chainId # BASE_SEPOLIA_CHAIN_ID
       THEN /\ wrongNetwork' = TRUE
            /\ SelectAwaits(i, "wallet_switchEthereumChain", selects[i].account, selects[i].failed)
       ELSE /\ UNCHANGED wrongNetwork
            /\ SelectAwaits(i, "balanceOf", selects[i].account, selects[i].failed)
    /\ UNCHANGED <<isWalletModalOpen, isConnected, walletInfo, isProcessing, paymentAmount,
                   isConnecting, clicks, ethereum, selected, pays, edits, animVars>>

\* A request of checkAndSwitchNetwork rejects and its outer catch runs: the
\* toast, return false, and handleWalletSelect returns.
NetworkCheckFailsDisconnecting(i) ==
    /\ SelectReturns(i, "network_failed", <<NetworkSwitchFailed>>, TRUE)
    /\ isConnected' = FALSE
    /\ UNCHANGED <<isWalletModalOpen, walletInfo, isProcessing, paymentAmount,
                   wrongNetwork, isConnecting, clicks, ethereum, selected, pays, edits, animVars>>
NetworkCheckFails(i) ==
    /\ SelectReturns(i, "network_failed", <<NetworkSwitchFailed>>, TRUE)
    /\ UNCHANGED <<isWalletModalOpen, isConnected, walletInfo, isProcessing, paymentAmount,
                   wrongNetwork, isConnecting, clicks, ethereum, selected, pays, edits, animVars>>

ChainIdReject(i, error) ==
    /\ selects[i].pc = "eth_chainId"
    /\ NetworkCheckFails(i)

\* wallet_switchEthereumChain resolves: setWrongNetwork(false), return true.
SwitchResolve(i) ==
    /\ selects[i].pc = "wallet_switchEthereumChain"
    /\ wrongNetwork' = FALSE
    /\ SelectAwaits(i, "balanceOf", selects[i].account, selects[i].failed)
    /\ UNCHANGED <<isWalletModalOpen, isConnected, walletInfo, isProcessing, paymentAmount,
                   isConnecting, clicks, ethereum, selected, pays, edits, animVars>>

\* wallet_switchEthereumChain rejects: code 4902 asks to add the chain, any
\* other failure is rethrown to the outer catch.
SwitchRejectAlwaysAdding(i, error) ==
    /\ selects[i].pc = "wallet_switchEthereumChain"
    /\ SelectAwaits(i, "wallet_addEthereumChain", selects[i].account, TRUE)
    /\ UNCHANGED <<isWalletModalOpen, isConnected, walletInfo, isProcessing,
                   paymentAmount, wrongNetwork, isConnecting, clicks, ethereum, selected,
                   pays, edits, animVars>>
SwitchReject(i, error) ==
    /\ selects[i].pc = "wallet_switchEthereumChain"
    /\ IF error.code = "4902"
       THEN /\ SelectAwaits(i, "wallet_addEthereumChain", selects[i].account, TRUE)
            /\ UNCHANGED <<isWalletModalOpen, isConnected, walletInfo, isProcessing,
                           paymentAmount, wrongNetwork, isConnecting, clicks, ethereum, selected,
                           pays, edits, animVars>>
       ELSE NetworkCheckFails(i)

\* wallet_addEthereumChain resolves: setWrongNetwork(false), return true.
AddResolve(i) ==
    /\ selects[i].pc = "wallet_addEthereumChain"
    /\ wrongNetwork' = FALSE
    /\ SelectAwaits(i, "balanceOf", selects[i].account, selects[i].failed)
    /\ UNCHANGED <<isWalletModalOpen, isConnected, walletInfo, isProcessing, paymentAmount,
                   isConnecting, clicks, ethereum, selected, pays, edits, animVars>>

AddReject(i, error) ==
    /\ selects[i].pc = "wallet_addEthereumChain"
    /\ NetworkCheckFails(i)

\* setWalletInfo(...), setIsConnected(true) and the "Wallet Connected" toast.
Connects(i, shown, failed) ==
    /\ walletInfo' = <<[address |-> selects[i].account, balance |-> shown,
                        network |-> "Base Sepolia"]>>
    /\ isConnected' = TRUE
    /\ SelectReturns(i, "connected", <<WalletConnected>>, failed)
    /\ UNCHANGED <<isWalletModalOpen, isProcessing, paymentAmount, wrongNetwork,
                   isConnecting, clicks, ethereum, selected, pays, edits, animVars>>

\* usdcContract.balanceOf(accounts[0]) resolves.
SelectBalanceResolve(i, balance) ==
    /\ selects[i].pc = "balanceOf"
    /\ \E shown \in FormatBalance(balance) : Connects(i, shown, selects[i].failed)

\* usdcContract.balanceOf(accounts[0]) rejects: the inner catch.
SelectBalanceReject(i, error) ==
    /\ selects[i].pc = "balanceOf"
    /\ Connects(i, UnableToFetch, TRUE)

\* ------------------------------------------- CryptoPayment.tsx: handlePayment
\* A handlePayment invocation suspended at an await: the amount and the
\* address are those of the render in which "Pay" was pressed; transfer is the
\* token amount passed to usdcContract.transfer, 0 until it is called.
PayCall(pc, amount, address, toasts, calls, transfer) ==
    [pc |-> pc, amount |-> amount, address |-> address, toasts |-> toasts, calls |-> calls,
     transfer |-> transfer]

\* ethers.parseUnits(paymentAmount.toString(), USDC_DECIMALS), 6 decimals:
\* thousandths to millionths.
parseUnits(amount) == amount * 1000

\* amountInWei of an invocation: parseUnits of the paymentAmount its closure
\* holds.
amountInWeiOfPanelNow(call) == parseUnits(paymentAmount)
amountInWeiOf(call) == parseUnits(call.amount)

\* The "Pay" button is rendered when connected and disabled while processing.
PayButtonAlwaysEnabled == isConnected
PayButtonEnabled == isConnected /\ ~isProcessing

\* handlePayment up to its first await: the wallet check, setIsProcessing(true),
\* provider.getSigner().
handlePayment ==
    /\ PayButtonEnabled
    /\ Len(pays) < MaxPays
    /\ IF walletInfo = Null \/ ~ethereum
       THEN /\ done' = Ended("pay", "not_connected",
                             <<Toast("Wallet not connected", "destructive", "connect first", 0)>>,
                             FALSE, FALSE, {}, paymentAmount)
            /\ UNCHANGED <<isProcessing, pays>>
       ELSE /\ isProcessing' = TRUE
            /\ pays' = Append(pays, PayCall("getSigner", paymentAmount, walletInfo[1].address,
                                            <<>>, {"getSigner"}, 0))
            /\ UNCHANGED done
    /\ UNCHANGED <<isWalletModalOpen, isConnected, walletInfo, paymentAmount, wrongNetwork,
                   isConnecting, clicks, ethereum, selected, selects, edits, animVars>>

\* The invocation pays[i] goes on to await `pc`.
PayAwaits(i, pc, toasts) ==
    /\ pays' = [pays EXCEPT ![i] = PayCall(pc, pays[i].amount, pays[i].address, toasts,
                                           pays[i].calls \cup {pc},
                                           IF pc = "transfer" THEN amountInWeiOf(pays[i])
                                           ELSE pays[i].transfer)]
    /\ UNCHANGED <<done, isProcessing>>

\* The invocation pays[i] ends, normally or by throwing. Every way out of the
\* try statement passes the finally block: setIsProcessing(false).
PayEndsSkippingFinally(i, outcome, toasts, failed, threw) ==
    /\ pays' = RemoveAt(pays, i)
    /\ done' = Ended("pay", outcome, toasts, failed, threw, pays[i].calls, pays[i].amount)
    /\ isProcessing' = IF threw THEN isProcessing ELSE FALSE
PayEnds(i, outcome, toasts, failed, threw) ==
    /\ pays' = RemoveAt(pays, i)
    /\ done' = Ended("pay", outcome, toasts, failed, threw, pays[i].calls, pays[i].amount)
    /\ isProcessing' = FALSE

\* The message the catch block picks for `error`.
errorMessage(error) ==
    IF error.code = "ACTION_REJECTED" THEN "Transaction was rejected by user."
    ELSE IF "insufficient funds" \in error.phrases THEN "Insufficient funds for gas fees."
    ELSE IF "user rejected" \in error.phrases THEN "Transaction was rejected by user."
    ELSE "Unable to process payment. Please try again."

\* catch (error: any): error.message.includes(...) is reached when the code is
\* not ACTION_REJECTED, and throws a TypeError when the failure carries no
\* message; then no toast is shown and the TypeError leaves handlePayment.
PayCatches(i, error, failed) ==
    IF error.code # "ACTION_REJECTED" /\ ~error.hasMessage
    THEN PayEnds(i, "threw", pays[i].toasts, failed, TRUE)
    ELSE PayEnds(i, "failed",
                 Append(pays[i].toasts,
                        Toast("Payment failed", "destructive", errorMessage(error), 0)),
                 failed, FALSE)

PayFrame ==
    UNCHANGED <<isWalletModalOpen, isConnected, walletInfo, paymentAmount, wrongNetwork,
                isConnecting, clicks, ethereum, selected, selects, edits, animVars>>

\* provider.getSigner() resolves: the amount is converted and balanceOf awaited.
SignerResolve(i) ==
    /\ pays[i].pc = "getSigner"
    /\ PayAwaits(i, "balanceOf", pays[i].toasts)
    /\ PayFrame

\* usdcContract.balanceOf(walletInfo.address) resolves: below the amount, the
\* "Insufficient balance" toast, setIsProcessing(false) and return; otherwise
\* transfer is called.
BalanceComparedBackwards(balance, amountInWei) == balance > amountInWei
BalanceBelow(balance, amountInWei) == balance < amountInWei
PayBalanceResolve(i, balance) ==
    /\ pays[i].pc = "balanceOf"
    /\ IF BalanceBelow(balance, amountInWeiOf(pays[i]))
       THEN PayEnds(i, "insufficient",
                    Append(pays[i].toasts,
                           Toast("Insufficient balance", "destructive", "need at least",
                                 pays[i].amount)),
                    FALSE, FALSE)
       ELSE PayAwaits(i, "transfer", pays[i].toasts)
    /\ PayFrame

\* usdcContract.transfer(RECIPIENT_ADDRESS, amountInWei) resolves with tx: the
\* "Transaction submitted" toast, then tx.wait().
TransferResolve(i) ==
    /\ pays[i].pc = "transfer"
    /\ PayAwaits(i, "wait",
                 Append(pays[i].toasts, Toast("Transaction submitted", "default", "processing", 0)))
    /\ PayFrame

\* tx.wait() resolves with a receipt: status 1 is the success toast, which
\* quotes the amount and receipt.hash; any other status throws
\* new Error("Transaction failed") into the catch block.
TransactionFailed == [code |-> "OTHER", hasMessage |-> TRUE, phrases |-> {}]
ReceiptResolveIgnoringStatus(i, receipt) ==
    /\ pays[i].pc = "wait"
    /\ PayEnds(i, "success",
               Append(pays[i].toasts,
                      Toast("Payment Successful", "default", receipt.hash, pays[i].amount)),
               FALSE, FALSE)
    /\ PayFrame
ReceiptResolve(i, receipt) ==
    /\ pays[i].pc = "wait"
    /\ IF receipt.status = 1
       THEN PayEnds(i, "success",
                    Append(pays[i].toasts,
                           Toast("Payment Successful", "default", receipt.hash,
                                 pays[i].amount)),
                    FALSE, FALSE)
       ELSE PayCatches(i, TransactionFailed, FALSE)
    /\ PayFrame

\* Any of the awaited calls rejects with `error`.
PayReject(i, error) ==
    /\ PayCatches(i, error, TRUE)
    /\ PayFrame

\* ----------------------------------------------------- the amount controls
\* Rendered when isConnected; nothing disables them while isProcessing.
AmountControlsShown == isConnected

AmountFrame ==
    UNCHANGED <<isWalletModalOpen, isConnected, walletInfo, isProcessing, wrongNetwork,
                isConnecting, clicks, ethereum, selected, selects, pays, done, animVars>>

\* In the whole-panel Spec the number of edits is bounded.
CountEdit == edits < MaxEdits /\ edits' = edits + 1

UserIncreases == AmountControlsShown /\ CountEdit /\ increaseAmount /\ AmountFrame
UserDecreases == AmountControlsShown /\ CountEdit /\ decreaseAmount /\ AmountFrame
UserSelectsPreset == AmountControlsShown /\ CountEdit /\ selectPreset /\ AmountFrame
UserTypesAmount == AmountControlsShown /\ CountEdit /\ handleAmountChange /\ AmountFrame

\* In SpecAmount the edits are not counted: any sequence of them.
Increase == AmountControlsShown /\ increaseAmount /\ AmountFrame /\ UNCHANGED edits
Decrease == AmountControlsShown /\ decreaseAmount /\ AmountFrame /\ UNCHANGED edits
SelectPreset == AmountControlsShown /\ selectPreset /\ AmountFrame /\ UNCHANGED edits
TypeAmount == AmountControlsShown /\ handleAmountChange /\ AmountFrame /\ UNCHANGED edits

\* ------------------------------------------------------------ specifications
\* AnimatedNumber is mounted with the amount of that render: useState(value).
InitAnimated ==
    /\ value = DefaultAmount * Res
    /\ displayValue = DefaultAmount * Res
    /\ isAnimating = FALSE
    /\ rafQueue = <<>>
    /\ sinceTarget = duration
    /\ animFrom = DefaultAmount * Res
    /\ writer = DefaultAmount * Res
    /\ framed = FALSE

\* The panel after construction: the useState initial values; the browser has
\* an injected provider or not.
Init ==
    /\ isWalletModalOpen = FALSE
    /\ isConnected = FALSE
    /\ walletInfo = Null
    /\ isProcessing = FALSE
    /\ paymentAmount = DefaultAmount
    /\ wrongNetwork = FALSE
    /\ isConnecting = NoWallet
    /\ clicks = <<>>
    /\ ethereum \in BOOLEAN
    /\ selected = Selected(NoWallet, 0)
    /\ selects = <<>>
    /\ pays = <<>>
    /\ done = NothingEnded
    /\ edits = 0
    /\ InitAnimated

\* The panel right after a first successful connection.
InitConnected ==
    /\ isWalletModalOpen = FALSE
    /\ isConnected = TRUE
    /\ walletInfo = <<[address |-> "0xAAAA", balance |-> 5000000, network |-> "Base Sepolia"]>>
    /\ isProcessing = FALSE
    /\ paymentAmount = DefaultAmount
    /\ wrongNetwork = FALSE
    /\ isConnecting = NoWallet
    /\ clicks = <<>>
    /\ ethereum = TRUE
    /\ selected = Selected("metamask", 1)
    /\ selects = <<>>
    /\ pays = <<>>
    /\ done = Ended("select", "connected", <<WalletConnected>>, FALSE, FALSE,
                     {"eth_requestAccounts", "eth_chainId", "balanceOf"}, 0)
    /\ edits = 0
    /\ InitAnimated

\* The wallet modal and handleWalletSelect.
NextConnect ==
    \/ OpenWalletModal
    \/ CloseWalletModal
    \/ \E wallet \in walletOptions : handleWalletClick(wallet)
    \/ WalletDelayElapsed
    \/ \E i \in 1..Len(selects), accounts \in AccountLists : AccountsResolve(i, accounts)
    \/ \E i \in 1..Len(selects), chainId \in ChainIds : ChainIdResolve(i, chainId)
    \/ \E i \in 1..Len(selects) : SwitchResolve(i)
    \/ \E i \in 1..Len(selects) : AddResolve(i)
    \/ \E i \in 1..Len(selects), balance \in Balances : SelectBalanceResolve(i, balance)
    \/ \E i \in 1..Len(selects), error \in Errors : AccountsReject(i, error)
    \/ \E i \in 1..Len(selects), error \in Errors : ChainIdReject(i, error)
    \/ \E i \in 1..Len(selects), error \in Errors : SwitchReject(i, error)
    \/ \E i \in 1..Len(selects), error \in Errors : AddReject(i, error)
    \/ \E i \in 1..Len(selects), error \in Errors : SelectBalanceReject(i, error)

\* The 500 ms timer of a pending handleWalletClick fires: the browser runs
\* every timer that is due.
SpecConnectFair == Init /\ [][NextConnect]_vars /\ WF_vars(WalletDelayElapsed)

\* handlePayment and the amount controls beside it.
NextPay ==
    \/ handlePayment
    \/ \E i \in 1..Len(pays) : SignerResolve(i)
    \/ \E i \in 1..Len(pays), balance \in Balances : PayBalanceResolve(i, balance)
    \/ \E i \in 1..Len(pays) : TransferResolve(i)
    \/ \E i \in 1..Len(pays), receipt \in Receipts : ReceiptResolve(i, receipt)
    \/ \E i \in 1..Len(pays), error \in Errors : PayReject(i, error)
    \/ UserIncreases
    \/ UserDecreases
    \/ UserSelectsPreset
    \/ UserTypesAmount

\* The whole panel.
Next == NextConnect \/ NextPay
Spec == Init /\ [][Next]_vars

\* The panel until and around connection: no payment is started.
SpecConnect == Init /\ [][NextConnect]_vars

\* The connected panel: payments and amount edits.
SpecPay == InitConnected /\ [][NextPay]_vars

\* The amount controls alone, any number of edits.
NextAmount == Increase \/ Decrease \/ SelectPreset \/ TypeAmount

SpecAmount == InitConnected /\ [][NextAmount]_vars

\* ========================================================= AnimatedNumber.tsx
\* value and displayValue are counted in quanta, Res to the milli. An animate
\* closure waiting in the requestAnimationFrame queue: its startValue, its
\* endValue and the time since its startTime.
Chain(startValue, endValue, elapsed) ==
    [startValue |-> startValue, endValue |-> endValue, elapsed |-> elapsed]

\* progress = Math.min(elapsed / duration, 1), as progress * duration
progressTimes(elapsed) == Min(elapsed, duration)
Finished(c) == progressTimes(c.elapsed) >= duration

\* easeOut = 1 - Math.pow(1 - progress, 3), as the fraction easeNum / easeDen
Cube(x) == x * x * x
easeDen == Cube(duration)
easeNumSignSlip(elapsed) == Cube(duration) + Cube(duration - progressTimes(elapsed))
easeNum(elapsed) == Cube(duration) - Cube(duration - progressTimes(elapsed))

\* currentValue = startValue + (endValue - startValue) * easeOut
easeReduced(elapsed) ==
    LET g == Gcd(easeNum(elapsed), easeDen)
    IN  [num |-> easeNum(elapsed) \div g, den |-> easeDen \div g]
currentValue(c) ==
    LET e == easeReduced(c.elapsed)
    IN  c.startValue + ((c.endValue - c.startValue) * e.num) \div e.den
\* The frames taken are those whose values are whole numbers of quanta.
Representable(c) ==
    LET e == easeReduced(c.elapsed)
    IN  ((c.endValue - c.startValue) * e.num) % e.den = 0

\* The last value one run of animate passes to setDisplayValue: currentValue,
\* and endValue after it when progress has reached 1.
lastSet(c) == IF Finished(c) THEN c.endValue ELSE currentValue(c)

\* The effect with dependencies [value, displayValue], run after a render in
\* which one of them changed; it returns no cleanup. With value !== displayValue
\* it calls setIsAnimating(true) and queues a new animate closure.
effectStarts(v, shown) == v # shown
effectQueue(queue, v, shown) ==
    IF effectStarts(v, shown) THEN Append(queue, Chain(shown, v, 0)) ELSE queue

\* The parent renders AnimatedNumber with another value (the amount changed).
Rerender(amount) ==
    /\ isConnected
    /\ amount * Res # value
    /\ Len(rafQueue) < MaxChains
    /\ paymentAmount' = amount
    /\ value' = amount * Res
    /\ rafQueue' = effectQueue(rafQueue, amount * Res, displayValue)
    /\ isAnimating' = (effectStarts(amount * Res, displayValue) \/ isAnimating)
    /\ sinceTarget' = 0
    /\ animFrom' = displayValue
    /\ framed' = FALSE
    /\ UNCHANGED <<displayValue, writer>>
    /\ UNCHANGED <<isWalletModalOpen, isConnected, walletInfo, isProcessing, wrongNetwork,
                   isConnecting, clicks, ethereum, selected, selects, pays, done, edits>>

\* dt milliseconds pass (Date.now() advances). Past the duration a closure's
\* progress stays 1, so times are kept up to the duration.
Tick(dt) ==
    /\ rafQueue # <<>> \/ sinceTarget < duration
    /\ rafQueue' = [k \in 1..Len(rafQueue) |->
                      Chain(rafQueue[k].startValue, rafQueue[k].endValue,
                            Min(rafQueue[k].elapsed + dt, duration))]
    /\ sinceTarget' = Min(sinceTarget + dt, duration)
    /\ framed' = FALSE
    /\ UNCHANGED <<value, displayValue, isAnimating, animFrom, writer, panelVars>>

\* The frame's callbacks run in the order they were queued; the state updates
\* of one frame are applied together, the last setDisplayValue standing.
frameWinner(queue) == queue[Len(queue)]

\* One animation frame: every queued animate runs, the unfinished ones queue
\* themselves again, the component renders, and the effect runs if
\* displayValue changed.
AnimationFrame ==
    /\ rafQueue # <<>>
    /\ \A k \in 1..Len(rafQueue) : Representable(rafQueue[k])
    /\ LET shown == lastSet(frameWinner(rafQueue))
           requeued == SelectSeq(rafQueue, LAMBDA c : ~Finished(c))
           someFinished == \E k \in 1..Len(rafQueue) : Finished(rafQueue[k])
           rerun == shown # displayValue
           starts == rerun /\ effectStarts(value, shown)
       IN  /\ Len(requeued) + (IF starts THEN 1 ELSE 0) <= MaxChains
           /\ displayValue' = shown
           /\ writer' = frameWinner(rafQueue).endValue
           /\ rafQueue' = IF rerun THEN effectQueue(requeued, value, shown) ELSE requeued
           /\ isAnimating' = IF starts THEN TRUE
                             ELSE IF someFinished THEN FALSE ELSE isAnimating
    /\ framed' = TRUE
    /\ UNCHANGED <<value, sinceTarget, animFrom, panelVars>>

NextAnim ==
    \/ \E amount \in AnimTargets : Rerender(amount)
    \/ \E dt \in TickSteps : Tick(dt)
    \/ AnimationFrame

\* The animated amount of the connected panel.
SpecAnim == InitConnected /\ [][NextAnim]_vars

\* =================================================================== claims

\* C1: after any sequence of increment, decrement, preset selection and
\* free-text entry from the default 5.00, the amount is within [0.25, 1000.00]
\* and has at most two decimals (it is a whole number of cents).
C1_AmountInBoundsTwoDecimals ==
    /\ paymentAmount >= MinAmount
    /\ paymentAmount <= MaxAmount
    /\ paymentAmount % CentUnit = 0
\* 12.10 is reached only by typing 12.345 (printed 12.35) and one decrement.
C1_Witness == paymentAmount = 12100

\* C2: at most one wallet-connection attempt (a wallet chosen and waiting out
\* the delay, or a handleWalletSelect call awaiting the provider) is in flight.
C2_OneConnectionAttempt == Len(clicks) + Len(selects) <= 1

\* C3: at most one handlePayment invocation is in flight, and while one is,
\* isProcessing is true (which disables the pay button).
C3_OnePaymentInFlight ==
    /\ Len(pays) <= 1
    /\ pays # <<>> => isProcessing /\ ~PayButtonEnabled
C3_Witness == Len(pays) = 1 /\ pays[1].pc = "wait" /\ isProcessing

\* C4: isProcessing is true only while a handlePayment invocation is still
\* awaiting the provider: once its call has resolved or rejected, whatever the
\* outcome, isProcessing is false again.
C4_ProcessingOnlyWhileAwaiting == pays = <<>> => ~isProcessing
\* The outcome that leaves through the catch block's own exception.
C4_Witness == done.kind = "pay" /\ done.threw /\ pays = <<>> /\ ~isProcessing

\* C5: every invocation in which an awaited wallet or payment call failed has
\* shown exactly one destructive notification and has not thrown out of the
\* handler.
C5_EveryFailureOneDestructiveToast ==
    done.failed => Cardinality(Destructive(done.toasts)) = 1 /\ ~done.threw

\* C6: a wallet selection that completes without a provider, or whose account
\* request is rejected, shows a destructive notification ("Wallet not found"
\* without a provider) and changes neither the connection state nor
\* walletInfo: a Disconnected panel remains Disconnected with walletInfo unset.
C6_NoProviderStep == ~ethereum /\ WalletDelayElapsed
C6_RejectedStep == \E i \in 1..Len(selects), error \in Errors : AccountsReject(i, error)
C6_ErrorShown(title) ==
    /\ done'.kind = "select"
    /\ Len(done'.toasts) = 1
    /\ done'.toasts[1].title = title
    /\ done'.toasts[1].variant = "destructive"
C6_StaysDisconnected ==
    /\ isConnected' = isConnected
    /\ walletInfo' = walletInfo
    /\ ~isConnected => ~isConnected' /\ walletInfo' = Null
C6_FailedSelectionStaysDisconnected ==
    [][/\ C6_NoProviderStep => C6_ErrorShown("Wallet not found") /\ C6_StaysDisconnected
       /\ C6_RejectedStep => C6_ErrorShown("Connection failed") /\ C6_StaysDisconnected]_vars
C6_Witness ==
    /\ done.kind = "select"
    /\ done.outcome = "accounts_rejected"
    /\ ~isConnected
    /\ walletInfo = Null

\* C7: the step of a payment submission at which the balance check returns
\* less than the requested amount ends the submission: transfer was never
\* called, the one notification is "Insufficient balance" for the amount of the
\* submit, isProcessing is false, and paymentAmount is left as it was.
C7_InsufficientStep(i, balance) ==
    /\ pays[i].pc = "balanceOf"
    /\ balance < parseUnits(pays[i].amount)
    /\ PayBalanceResolve(i, balance)
C7_InsufficientEffect(i) ==
    /\ pays' = RemoveAt(pays, i)
    /\ done'.kind = "pay"
    /\ "transfer" \notin done'.calls
    /\ Len(done'.toasts) = 1
    /\ done'.toasts[1].title = "Insufficient balance"
    /\ done'.toasts[1].amount = pays[i].amount
    /\ ~isProcessing'
    /\ paymentAmount' = paymentAmount
C7_InsufficientBalanceEndsPayment ==
    [][\A i \in 1..Len(pays), balance \in Balances :
          C7_InsufficientStep(i, balance) => C7_InsufficientEffect(i)]_vars
C7_Witness ==
    /\ done.kind = "pay"
    /\ done.outcome = "insufficient"
    /\ "transfer" \notin done.calls
    /\ ~isProcessing
    /\ paymentAmount = done.amount

\* C8: on every frame at which at least 300 ms have passed since the target
\* became V (V different from the value displayed before), the displayed value
\* is exactly V.
C8_SnappedAfterDuration ==
    (framed /\ sinceTarget >= duration /\ animFrom # value) => displayValue = value

\* C9: while an animation toward the unchanged target V is running, each
\* frame's displayed value lies between the previous frame's and V (the
\* sequence is monotonic toward V) and between the value D the animation
\* started from and V.
Between(x, a, b) == (a <= x /\ x <= b) \/ (b <= x /\ x <= a)
C9_Running == \E k \in 1..Len(rafQueue) : rafQueue[k].endValue = value
C9_MonotonicBetween ==
    [][(value' = value /\ C9_Running) =>
          /\ Between(displayValue', displayValue, value)
          /\ animFrom # value => Between(displayValue', animFrom, value)]_vars
\* A frame has shown a value strictly inside (D, V), on the way down.
C9_Witness ==
    /\ framed
    /\ C9_Running
    /\ value < displayValue
    /\ displayValue < animFrom

\* C10: after the target has changed, the displayed value is only ever set by
\* an animation toward the current target, never by a superseded one.
C10_OnlyCurrentAnimationWrites ==
    [][displayValue' # displayValue => writer' = value']_vars

\* C11: while a wallet choice is connecting (isConnecting is not null) no
\* wallet choice can be selected, so at most one handleWalletClick is waiting
\* out its delay, also when the modal is dismissed and opened again meanwhile.
C11_OneConnectingOperation ==
    /\ Len(clicks) <= 1
    /\ isConnecting = NoWallet <=> clicks = <<>>
    /\ isConnecting # NoWallet =>
          /\ clicks = <<isConnecting>>
          /\ \A wallet \in walletOptions : ~ENABLED handleWalletClick(wallet)
\* The modal was dismissed during the delay and can be opened again.
C11_Witness ==
    /\ isConnecting # NoWallet
    /\ clicks # <<>>
    /\ ~isWalletModalOpen
    /\ ENABLED OpenWalletModal

\* C12: the callback is invoked only for a pending selection, with that
\* selection's identifier, in the step that clears isConnecting and closes the
\* modal; a selection leaves the pending state only by that invocation; and
\* every selection of a choice w leads to the callback having been invoked
\* with w, isConnecting cleared and the modal closed.
C12_CallbackStep == selected' # selected
C12_SelectionStep ==
    \E wallet \in walletOptions :
        /\ clicks' = Append(clicks, wallet)
        /\ isConnecting' = wallet
        /\ selected' = selected
C12_OneCallbackPerSelection ==
    /\ [][/\ C12_CallbackStep =>
               /\ clicks # <<>>
               /\ selected'.walletType = Head(clicks)
               /\ clicks' = Tail(clicks)
               /\ isConnecting' = NoWallet
               /\ ~isWalletModalOpen'
          /\ clicks' # clicks => C12_CallbackStep \/ C12_SelectionStep]_vars
    /\ \A wallet \in walletOptions :
          (clicks # <<>> /\ Head(clicks) = wallet)
              ~> (/\ selected.walletType = wallet
                  /\ clicks = <<>>
                  /\ isConnecting = NoWallet
                  /\ ~isWalletModalOpen)
\* The callback has been invoked twice, the second time for "coinbase".
C12_Witness ==
    /\ selected = Selected("coinbase", 0)
    /\ clicks = <<>>
    /\ isConnecting = NoWallet
    /\ ~isWalletModalOpen

\* C13: once walletInfo is populated, no step changes it (its address, its
\* balance or its network).
C13_WalletInfoImmutable == [][walletInfo # Null => walletInfo' = walletInfo]_vars

\* C14: no step takes the panel from Connected back to Disconnected.
C14_NoReverseTransition == [][isConnected => isConnected']_vars
\* A connection attempt has failed its network check on a Connected panel.
C14_Witness ==
    /\ isConnected
    /\ done.kind = "select"
    /\ done.toasts = <<NetworkSwitchFailed>>

\* C15: while isProcessing is true no step changes paymentAmount.
C15_AmountFrozenWhileProcessing == [][isProcessing => paymentAmount' = paymentAmount]_vars

\* C16: a free-text entry sets the amount to 0.25 when the text is not a number
\* or is a number below 0.25 (0 and negatives included), to 1000.00 when it is
\* above 1000, and otherwise to a two-decimal amount nearest to the number
\* typed (within half a cent of it).
C16_TypedStep(text) ==
    /\ AmountControlsShown
    /\ paymentAmount' \in handleAmountChangeResult(text)
    /\ AmountFrame
C16_Expected(text, amount) ==
    IF ~text.numeric \/ text.milli < MinAmount THEN amount = MinAmount
    ELSE IF text.milli > MaxAmount THEN amount = MaxAmount
    ELSE /\ amount % CentUnit = 0
         /\ 2 * (amount - text.milli) <= CentUnit
         /\ 2 * (text.milli - amount) <= CentUnit
C16_FreeTextEntry ==
    [][\A text \in TextInputs :
          C16_TypedStep(text) => C16_Expected(text, paymentAmount')]_vars
\* 12.34 comes from typing 12.344 (or 12.345 printed down).
C16_Witness == paymentAmount = 12340

\* C17: from every amount the panel can hold, increment yields exactly
\* min(a + 0.25, 1000.00) and decrement exactly max(a - 0.25, 0.25).
C17_StepsClampExactly ==
    /\ increaseAmountResult(paymentAmount) = {Min(paymentAmount + AmountStep, MaxAmount)}
    /\ decreaseAmountResult(paymentAmount) = {Max(paymentAmount - AmountStep, MinAmount)}
\* 999.74 is reached only by a decrement from 999.99, the amount from which an
\* increment would overshoot 1000.00.
C17_Witness == paymentAmount = 999740

\* C18: a rejected payment call shows "Payment failed" with the message of its
\* category: code ACTION_REJECTED is user-rejected; otherwise a message with
\* 'insufficient funds' is insufficient-gas; otherwise a message with
\* 'user rejected' is user-rejected; every other failure is generic.
C18_Category(error) ==
    IF error.code = "ACTION_REJECTED" THEN "Transaction was rejected by user."
    ELSE IF error.hasMessage /\ "insufficient funds" \in error.phrases
         THEN "Insufficient funds for gas fees."
    ELSE IF error.hasMessage /\ "user rejected" \in error.phrases
         THEN "Transaction was rejected by user."
    ELSE "Unable to process payment. Please try again."
C18_Classified(error, ended) ==
    /\ ended.kind = "pay"
    /\ ended.toasts # <<>>
    /\ ended.toasts[Len(ended.toasts)].title = "Payment failed"
    /\ ended.toasts[Len(ended.toasts)].message = C18_Category(error)
C18_FailureClassifiedInOrder ==
    [][\A i \in 1..Len(pays), error \in Errors :
          PayReject(i, error) => C18_Classified(error, done')]_vars

\* C19: the receipt of a submitted transfer with status 1 ends the payment
\* with "Payment Successful" quoting the receipt's hash; with any other status
\* it ends with "Payment failed" and no success notification; and no other
\* step shows "Payment Successful".
C19_Successes(toasts) == {k \in 1..Len(toasts) : toasts[k].title = "Payment Successful"}
C19_ReceiptEffect(call, receipt, ended) ==
    /\ ended.kind = "pay"
    /\ "transfer" \in ended.calls
    /\ Len(ended.toasts) = Len(call.toasts) + 1
    /\ IF receipt.status = 1
       THEN /\ C19_Successes(ended.toasts) = {Len(ended.toasts)}
            /\ ended.toasts[Len(ended.toasts)].message = receipt.hash
            /\ Destructive(ended.toasts) = {}
       ELSE /\ C19_Successes(ended.toasts) = {}
            /\ ended.toasts[Len(ended.toasts)].title = "Payment failed"
            /\ Destructive(ended.toasts) = {Len(ended.toasts)}
C19_SuccessIffReceiptStatusOne ==
    [][/\ \A i \in 1..Len(pays) : C19_Successes(pays[i].toasts) = {}
       /\ \A i \in 1..Len(pays), receipt \in Receipts :
             ReceiptResolve(i, receipt) => C19_ReceiptEffect(pays[i], receipt, done')
       /\ (done' # done /\ C19_Successes(done'.toasts) # {}) =>
             \E i \in 1..Len(pays), receipt \in Receipts :
                 /\ pays[i].pc = "wait"
                 /\ "transfer" \in pays[i].calls
                 /\ receipt.status = 1
                 /\ pays' = RemoveAt(pays, i)
                 /\ done'.toasts[Len(done'.toasts)].message = receipt.hash]_vars
C19_Witness ==
    /\ done.kind = "pay"
    /\ Len(done.toasts) = 2
    /\ done.toasts[2].title = "Payment Successful"
    /\ done.toasts[2].message = "0xT2"

\* C20: for a wallet selection that got accounts on another chain than Base
\* Sepolia: a switch request failing with a code other than 4902, or a failing
\* add request, ends it with "Network Switch Failed" and changes neither the
\* connection state nor walletInfo (a Disconnected panel remains Disconnected
\* with walletInfo unset); a switch failing with 4902 only requests the add;
\* and the selection connects the panel only from the balance query it
\* reaches after the switch, or the add following a failed switch, resolved.
C20_WrongChain(call) == "wallet_switchEthereumChain" \in call.calls
C20_NetworkSwitchFailed ==
    /\ done'.kind = "select"
    /\ Len(done'.toasts) = 1
    /\ done'.toasts[1].title = "Network Switch Failed"
    /\ done'.toasts[1].variant = "destructive"
    /\ isConnected' = isConnected
    /\ walletInfo' = walletInfo
    /\ ~isConnected => ~isConnected' /\ walletInfo' = Null
C20_AddRequested(i) ==
    /\ Len(selects') = Len(selects)
    /\ selects'[i].pc = "wallet_addEthereumChain"
    /\ done' = done
    /\ isConnected' = isConnected
    /\ walletInfo' = walletInfo
C20_ConnectsAfterNetworkOk(call) ==
    /\ call.pc = "balanceOf"
    /\ "wallet_addEthereumChain" \in call.calls => call.failed
    /\ isConnected'
    /\ walletInfo' # Null
    /\ walletInfo'[1].address = call.account
C20_ConnectedOnlyAfterSwitchOrAdd ==
    [][/\ \A i \in 1..Len(selects) :
             /\ selects[i].pc = "wallet_switchEthereumChain" =>
                   \A error \in Errors :
                       SwitchReject(i, error) =>
                           IF error.code = "4902" THEN C20_AddRequested(i)
                           ELSE C20_NetworkSwitchFailed
             /\ selects[i].pc = "wallet_addEthereumChain" =>
                   \A error \in Errors : AddReject(i, error) => C20_NetworkSwitchFailed
       /\ \A i \in 1..Len(selects) :
             (/\ C20_WrongChain(selects[i])
              /\ selects' = RemoveAt(selects, i)
              /\ isConnected' # isConnected \/ walletInfo' # walletInfo)
                 => C20_ConnectsAfterNetworkOk(selects[i])]_vars
\* Connected by a selection whose switch failed with 4902 and whose add
\* request succeeded.
C20_Witness ==
    /\ isConnected
    /\ done.kind = "select"
    /\ "wallet_addEthereumChain" \in done.calls
    /\ done.toasts = <<WalletConnected>>

\* C21: before and after every step a Connected panel has walletInfo
\* populated; a wallet selection keeps
\* the first of the accounts the provider returned, and the step that connects
\* the panel populates walletInfo with that account; when the balance query
\* alone fails, the panel still becomes Connected, its balance shown as
\* "Unable to fetch".
C21_Populated ==
    isConnected =>
        /\ walletInfo # Null
        /\ walletInfo[1].address \in Addresses
        /\ walletInfo[1].network = "Base Sepolia"
C21_FirstAccountKept(i) ==
    \A accounts \in AccountLists :
        (AccountsResolve(i, accounts) /\ Len(accounts) > 0 /\ Len(selects') = Len(selects))
            => selects'[i].account = accounts[1]
C21_ConnectedWith(call) ==
    /\ isConnected'
    /\ walletInfo' # Null
    /\ walletInfo'[1].address = call.account
    /\ done'.toasts = <<WalletConnected>>
C21_ConnectedWithFirstAccount ==
    [][/\ C21_Populated
       /\ C21_Populated'
       /\ \A i \in 1..Len(selects) :
             /\ selects[i].pc = "eth_requestAccounts" => C21_FirstAccountKept(i)
             /\ (/\ selects' = RemoveAt(selects, i)
                 /\ isConnected' # isConnected \/ walletInfo' # walletInfo)
                    => C21_ConnectedWith(selects[i])
             /\ selects[i].pc = "balanceOf" =>
                   \A error \in Errors :
                       SelectBalanceReject(i, error) =>
                           /\ C21_ConnectedWith(selects[i])
                           /\ walletInfo'[1].balance = UnableToFetch]_vars
\* Connected although the balance query failed.
C21_Witness ==
    /\ isConnected
    /\ walletInfo # Null
    /\ walletInfo[1].balance = UnableToFetch
    /\ walletInfo[1].address = "0xBBBB"

\* C22: a payment submission holds the paymentAmount of the moment Pay was
\* pressed and keeps it, whatever edits follow: the token amount it passes to
\* transfer and the amount its notifications quote are that amount; and no
\* step of handlePayment, whatever its outcome, changes paymentAmount,
\* walletInfo or the connection state.
C22_Pressed == Len(pays') = Len(pays) + 1
C22_Proceeds == Len(pays') = Len(pays) /\ pays' # pays
C22_QuotesOnly(toasts, amount) ==
    \A k \in 1..Len(toasts) : toasts[k].amount \in {0, amount}
C22_SubmissionKeepsPressedAmount ==
    [][/\ C22_Pressed =>
             /\ pays'[Len(pays')].amount = paymentAmount
             /\ pays'[Len(pays')].transfer = 0
       /\ C22_Proceeds =>
             \A i \in 1..Len(pays) :
                 /\ pays'[i].amount = pays[i].amount
                 /\ C22_QuotesOnly(pays'[i].toasts, pays[i].amount)
                 /\ "transfer" \in pays'[i].calls =>
                       pays'[i].transfer = pays[i].amount * 1000
       /\ \A i \in 1..Len(pays) :
             (pays' = RemoveAt(pays, i) /\ done' # done) =>
                 /\ done'.amount = pays[i].amount
                 /\ C22_QuotesOnly(done'.toasts, pays[i].amount)
                 /\ \A k \in Destructive(done'.toasts) \cup C19_Successes(done'.toasts) :
                       done'.toasts[k].title # "Payment failed" =>
                           done'.toasts[k].amount = pays[i].amount
       /\ (pays' # pays \/ done' # done) =>
             /\ paymentAmount' = paymentAmount
             /\ walletInfo' = walletInfo
             /\ isConnected' = isConnected]_vars
\* A payment of 5.00 has succeeded after the amount was edited during
\* Processing.
C22_Witness ==
    /\ done.kind = "pay"
    /\ "transfer" \in done.calls
    /\ done.toasts # <<>>
    /\ done.toasts[Len(done.toasts)].title = "Payment Successful"
    /\ done.toasts[Len(done.toasts)].amount = DefaultAmount
    /\ paymentAmount # DefaultAmount

====
